---- MODULE Spec2Model ----
(***************************************************************************)
(* Model of tts_gtts_make_mp3.py: TextChunker.chunk_text, the synthesis    *)
(* loop of TTSProcessor.synthesize_to_mp3, TTSProcessor._merge_audio_files *)
(* and the error handling of main.                                         *)
(*                                                                         *)
(* A text is a sequence of one-character strings.  Offsets are 0-based as  *)
(* in the Python source; TLA+ sequences are 1-based, so text[i:end] is     *)
(* SubSeq(text, i + 1, end).                                               *)
(***************************************************************************)
EXTENDS Integers, Sequences, FiniteSets, TLC

\* ------------------------------------------------------------------------
\* Bounds of the model
\* ------------------------------------------------------------------------
MaxLen == 4
MaxChunk == 3
LongLen == 11
MaxPipeLen == 3
MaxScanLen == 5

\* ------------------------------------------------------------------------
\* Characters.  The two Japanese marks are written with ASCII stand-ins.
\* ------------------------------------------------------------------------
Kuten == "maru"
Period == "."
Newline == "nl"
Touten == "ten"
Comma == ","
Space == " "
Tab == "tab"
Letter == "a"

Alphabet == {Kuten, Period, Newline, Touten, Comma, Space, Tab, Letter}

\* the characters str.strip() removes
Whitespace == {Space, Newline, Tab}

DEFAULT_GAIN == 3
DEFAULT_SILENCE_MS == 250
\* speeds are in thousandths: 1.2 is 1200, 1.0 is 1000
DEFAULT_SPEED == 1200
UnitSpeed == 1000

\* ------------------------------------------------------------------------
\* Pure helpers of chunk_text
\* ------------------------------------------------------------------------
SetMax(S) == CHOOSE x \in S : \A y \in S : y <= x

SetMin(S) == CHOOSE x \in S : \A y \in S : x <= y

\* text[i:end] with Python's clamping of the slice bounds
SliceLoose(t, i, end) ==
    LET hi == IF end > Len(t) THEN Len(t) ELSE end
        lo == i + 2
    IN  IF lo > hi THEN << >> ELSE SubSeq(t, lo, hi)

Slice(t, i, end) ==
    LET hi == IF end > Len(t) THEN Len(t) ELSE end
        lo == i + 1
    IN  IF lo > hi THEN << >> ELSE SubSeq(t, lo, hi)

\* s.rfind(c) for a one-character marker: 0-based index or -1
rfind1(s, c) ==
    LET hits == {j \in 1..Len(s) : s[j] = c}
    IN  IF hits = {} THEN -1 ELSE SetMax(hits) - 1

\* s.rfind(c1 c2) for a two-character marker: 0-based index or -1
rfind2(s, c1, c2) ==
    LET hits == {j \in 1..(Len(s) - 1) : s[j] = c1 /\ s[j + 1] = c2}
    IN  IF hits = {} THEN -1 ELSE SetMax(hits) - 1

\* the six rfind results of lines 107-114
break_points(s) ==
    { rfind1(s, Kuten),
      rfind2(s, Period, Newline),
      rfind1(s, Newline),
      rfind1(s, Touten),
      rfind2(s, Comma, Space),
      rfind1(s, Space) }

\* max(break_points)
last_break_ranked(s) ==
    IF rfind1(s, Kuten) >= 0 THEN rfind1(s, Kuten)
    ELSE IF rfind2(s, Period, Newline) >= 0 THEN rfind2(s, Period, Newline)
    ELSE IF rfind1(s, Newline) >= 0 THEN rfind1(s, Newline)
    ELSE IF rfind1(s, Touten) >= 0 THEN rfind1(s, Touten)
    ELSE IF rfind2(s, Comma, Space) >= 0 THEN rfind2(s, Comma, Space)
    ELSE rfind1(s, Space)

last_break(s) == SetMax(break_points(s))

\* end = min(i + chunk_size, n)
TentativeEnd(t, i, cs) ==
    IF i + cs < Len(t) THEN i + cs ELSE Len(t)

\* no threshold on the position of the boundary
AcceptBreakAlways(b, cs) == TRUE

\* last_break > chunk_size * 0.3, in exact arithmetic.  The float product
\* chunk_size * 0.3 is the exact integer when chunk_size is a multiple of 10
\* and is at least 0.1 away from every integer otherwise, so the comparison
\* with the integer last_break agrees with 10 * last_break > 3 * chunk_size.
AcceptBreak(b, cs) == 10 * b > 3 * cs

\* the end offset the iteration starting at i settles on (lines 100-119)
ChunkEndPlus2(t, i, cs) ==
    LET end0 == TentativeEnd(t, i, cs)
        b == last_break(Slice(t, i, end0))
    IN  IF end0 # Len(t) /\ AcceptBreak(b, cs) THEN i + b + 2 ELSE end0

ChunkEnd(t, i, cs) ==
    LET end0 == TentativeEnd(t, i, cs)
        b == last_break(Slice(t, i, end0))
    IN  IF end0 # Len(t) /\ AcceptBreak(b, cs) THEN i + b + 1 ELSE end0

\* str.strip()
stripLeft(s) ==
    LET keep == {j \in 1..Len(s) : s[j] \notin Whitespace}
    IN  IF keep = {} THEN << >> ELSE SubSeq(s, SetMin(keep), Len(s))

strip(s) ==
    LET keep == {j \in 1..Len(s) : s[j] \notin Whitespace}
    IN  IF keep = {} THEN << >> ELSE SubSeq(s, SetMin(keep), SetMax(keep))

\* if chunk: chunks.append(chunk)
AppendAlways(cs, chunk) == Append(cs, chunk)

AppendIfNonEmpty(cs, chunk) ==
    IF chunk # << >> THEN Append(cs, chunk) ELSE cs

\* ------------------------------------------------------------------------
\* Audio signals: a sequence of pieces, each a decoded segment file or a
\* stretch of silence, with the gain offset applied to it so far
\* ------------------------------------------------------------------------
SegmentPiece(idx) == [kind |-> "segment", index |-> idx, ms |-> 0, db |-> 0]

\* AudioSegment.silent(duration=self.silence_ms)
SilencePiece(ms) == [kind |-> "silence", index |-> 0, ms |-> ms, db |-> 0]

\* merged += segment + silence
MergeOne(mg, idx, ms) == mg \o << SegmentPiece(idx), SilencePiece(ms) >>

\* merged + self.gain
ApplyGain(mg, g) == [j \in 1..Len(mg) |-> [mg[j] EXCEPT !.db = @ + g]]

\* abs(self.speed - 1.0) > 1e-3, speeds in thousandths
TempoAlways(sp) == TRUE

TempoNeeded(sp) ==
    (IF sp >= UnitSpeed THEN sp - UnitSpeed ELSE UnitSpeed - sp) > 1

\* ------------------------------------------------------------------------
\* Inputs
\* ------------------------------------------------------------------------
SeqsUpTo(S, n) == UNION {[1..l -> S] : l \in 0..n}

\* texts for the chunker alone: every short text over the whole alphabet and
\* long texts of letters and spaces, long enough for a chunk size of 10
ChunkTexts ==
    SeqsUpTo(Alphabet, MaxLen) \cup [1..LongLen -> {Letter, Space}]

ChunkSizes == (1..MaxChunk) \cup {10}

\* the text of the documented example, cut with a chunk size of 20
ExampleText ==
    << "F", "i", "r", "s", "t", " ", "s", "e", "n", "t",
       "e", "n", "c", "e", ".", " ", "S", "e", "c", "o",
       "n", "d", " ", "s", "e", "n", "t", "e", "n", "c",
       "e", ".", " ", "T", "h", "i", "r", "d", "." >>

\* texts and chunk sizes for the whole pipeline
PipeTexts == SeqsUpTo({Letter, Space}, MaxPipeLen)

PipeSizes == 1..2

Gains == {0, DEFAULT_GAIN}

\* 1.0, 1.001 (within the 1e-3 tolerance of line 240) and the default
Speeds == {UnitSpeed, UnitSpeed + 1, DEFAULT_SPEED}

\* ------------------------------------------------------------------------
\* State
\* ------------------------------------------------------------------------
VARIABLES
    text,        \* cleaned_text / the argument of chunk_text
    chunk_size,  \* args.chunk
    gain,        \* self.gain
    speed,       \* self.speed, in thousandths
    pc,          \* position in main / synthesize_to_mp3 / _merge_audio_files
    i,           \* scan offset of chunk_text
    chunks,      \* the list chunk_text builds
    spans,       \* one record per iteration of the scan loop
    k,           \* 1-based index of the synthesis loop
    attempts,    \* the units handed to gTTS so far, in order, with the outcome
    part_paths,  \* indices of the part files saved so far
    tmpdir,      \* "none", "held" or "released"
    m,           \* 1-based position of the merge loop in part_paths
    reads,       \* the part files from_mp3 was called on, with the outcome
    merged,      \* the signal built by _merge_audio_files
    ops,         \* the stages _merge_audio_files has run on merged
    exported,    \* TRUE once merged.export has written the artifact
    err          \* "none" or the error the run ended with

vars == << text, chunk_size, gain, speed, pc, i, chunks, spans, k, attempts,
           part_paths, tmpdir, m, reads, merged, ops, exported, err >>

chunkVars == << i, chunks, spans >>
synthVars == << k, attempts, part_paths >>
mergeVars == << m, reads, merged, ops, exported >>
inputVars == << text, chunk_size, gain, speed >>

InitRest ==
    /\ i = 0
    /\ chunks = << >>
    /\ spans = << >>
    /\ k = 1
    /\ attempts = << >>
    /\ part_paths = << >>
    /\ tmpdir = "none"
    /\ m = 1
    /\ reads = << >>
    /\ merged = << >>
    /\ ops = << >>
    /\ exported = FALSE
    /\ err = "none"

\* the pipeline, entered at main after the text has been read and cleaned
Init ==
    /\ text \in PipeTexts
    /\ chunk_size \in PipeSizes
    /\ gain \in Gains
    /\ speed \in Speeds
    /\ pc = "main"
    /\ InitRest

\* chunk_text called on its own
InitChunk ==
    /\ \/ text \in ChunkTexts /\ chunk_size \in ChunkSizes
       \/ text = ExampleText /\ chunk_size = 20
    /\ gain = DEFAULT_GAIN
    /\ speed = DEFAULT_SPEED
    /\ pc = "chunk"
    /\ InitRest

\* ------------------------------------------------------------------------
\* TextChunker.chunk_text
\* ------------------------------------------------------------------------
\* if not text: return []; chunks = []; i = 0; n = len(text)
ChunkEnter ==
    /\ pc = "chunk"
    /\ pc' = IF text = << >> THEN "chunked" ELSE "chunk_loop"
    /\ i' = 0
    /\ chunks' = << >>
    /\ UNCHANGED << inputVars, spans, synthVars, tmpdir, mergeVars, err >>

\* one iteration of while i < n
ChunkStep ==
    /\ pc = "chunk_loop"
    /\ i < Len(text)
    /\ LET end0 == TentativeEnd(text, i, chunk_size)
           end == ChunkEnd(text, i, chunk_size)
           raw == Slice(text, i, end)
       IN  /\ chunks' = AppendIfNonEmpty(chunks, strip(raw))
           /\ spans' = Append(spans,
                 [start |-> i, end |-> end, tentative |-> end0,
                  b |-> IF end0 # Len(text)
                        THEN last_break(Slice(text, i, end0)) ELSE -1,
                  raw |-> raw])
           /\ i' = end
    /\ UNCHANGED << inputVars, pc, synthVars, tmpdir, mergeVars, err >>

\* the loop condition fails: return chunks
ChunkReturn ==
    /\ pc = "chunk_loop"
    /\ i >= Len(text)
    /\ pc' = "chunked"
    /\ UNCHANGED << inputVars, chunkVars, synthVars, tmpdir, mergeVars, err >>

ChunkNext == ChunkEnter \/ ChunkStep \/ ChunkReturn

SpecChunk == InitChunk /\ [][ChunkNext]_vars

\* ------------------------------------------------------------------------
\* main, up to the call of synthesize_to_mp3 (lines 413-447)
\* ------------------------------------------------------------------------
\* if not cleaned_text: sys.exit(1); otherwise synthesize_to_mp3 is called
\* and starts with chunker.chunk_text(text)
MainCheck ==
    /\ pc = "main"
    /\ IF text = << >>
       THEN pc' = "exit" /\ err' = "EmptyCleanedText"
       ELSE pc' = "chunk" /\ err' = err
    /\ UNCHANGED << inputVars, chunkVars, synthVars, tmpdir, mergeVars >>

\* ------------------------------------------------------------------------
\* TTSProcessor.synthesize_to_mp3
\* ------------------------------------------------------------------------
\* if not chunks
EmptyChunksNever(c) == FALSE

EmptyChunks(c) == c = << >>

\* if not chunks: raise ValueError; with tempfile.TemporaryDirectory(...)
SynthesizeEnter ==
    /\ pc = "chunked"
    /\ IF EmptyChunks(chunks)
       THEN pc' = "exit" /\ err' = "ValueError" /\ tmpdir' = tmpdir
       ELSE pc' = "synth_loop" /\ err' = err /\ tmpdir' = "held"
    /\ k' = 1
    /\ part_paths' = << >>
    /\ UNCHANGED << inputVars, chunkVars, attempts, mergeVars >>

\* part_paths.append(part_file), part_file named after the unit's index i
SavePartRenumbered(pp, idx) == Append(pp, Len(pp) + 1)

SavePart(pp, idx) == Append(pp, idx)

\* gTTS(chunk).save(part_file) succeeds
SynthOk ==
    /\ pc = "synth_loop"
    /\ k <= Len(chunks)
    /\ attempts' = Append(attempts, [index |-> k, ok |-> TRUE])
    /\ part_paths' = SavePart(part_paths, k)
    /\ k' = k + 1
    /\ UNCHANGED << inputVars, pc, chunkVars, tmpdir, mergeVars, err >>

\* gTTS raises an Exception: warning, continue
SynthFailAbort ==
    /\ pc = "synth_loop"
    /\ k <= Len(chunks)
    /\ attempts' = Append(attempts, [index |-> k, ok |-> FALSE])
    /\ pc' = "exit"
    /\ err' = "SynthesisError"
    /\ tmpdir' = "released"
    /\ UNCHANGED << inputVars, chunkVars, k, part_paths, mergeVars >>

SynthFail ==
    /\ pc = "synth_loop"
    /\ k <= Len(chunks)
    /\ attempts' = Append(attempts, [index |-> k, ok |-> FALSE])
    /\ k' = k + 1
    /\ UNCHANGED << inputVars, pc, chunkVars, part_paths, tmpdir, mergeVars,
                    err >>

\* if not part_paths: raise Exception(...)
NoPartsNever(pp) == FALSE

NoParts(pp) == pp = << >>

\* the for loop is exhausted (lines 200-204)
SynthLoopExit ==
    /\ pc = "synth_loop"
    /\ k > Len(chunks)
    /\ IF NoParts(part_paths)
       THEN pc' = "exit" /\ err' = "AllChunksFailed" /\ tmpdir' = "released"
       ELSE pc' = "merge_loop" /\ err' = err /\ tmpdir' = tmpdir
    /\ m' = 1
    /\ merged' = << >>
    /\ UNCHANGED << inputVars, chunkVars, synthVars, reads, ops, exported >>

\* ------------------------------------------------------------------------
\* TTSProcessor._merge_audio_files
\* ------------------------------------------------------------------------
\* AudioSegment.from_mp3(path) succeeds
MergeReadOk ==
    /\ pc = "merge_loop"
    /\ m <= Len(part_paths)
    /\ reads' = Append(reads, [index |-> part_paths[m], ok |-> TRUE])
    /\ merged' = MergeOne(merged, part_paths[m], DEFAULT_SILENCE_MS)
    /\ m' = m + 1
    /\ UNCHANGED << inputVars, pc, chunkVars, synthVars, tmpdir, ops,
                    exported, err >>

\* AudioSegment.from_mp3(path) raises an Exception: warning, continue
MergeReadFailAbort ==
    /\ pc = "merge_loop"
    /\ m <= Len(part_paths)
    /\ reads' = Append(reads, [index |-> part_paths[m], ok |-> FALSE])
    /\ pc' = "exit"
    /\ err' = "AssemblyReadError"
    /\ tmpdir' = "released"
    /\ UNCHANGED << inputVars, chunkVars, synthVars, m, merged, ops, exported >>

MergeReadFail ==
    /\ pc = "merge_loop"
    /\ m <= Len(part_paths)
    /\ reads' = Append(reads, [index |-> part_paths[m], ok |-> FALSE])
    /\ m' = m + 1
    /\ UNCHANGED << inputVars, pc, chunkVars, synthVars, tmpdir, merged, ops,
                    exported, err >>

\* the for loop is exhausted; if self.gain != 0: merged = merged + self.gain
GainStage ==
    /\ pc = "merge_loop"
    /\ m > Len(part_paths)
    /\ IF gain # 0
       THEN merged' = ApplyGain(merged, gain) /\ ops' = Append(ops, "gain")
       ELSE merged' = merged /\ ops' = ops
    /\ pc' = "tempo"
    /\ UNCHANGED << inputVars, chunkVars, synthVars, tmpdir, m, reads,
                    exported, err >>

\* if abs(self.speed - 1.0) > 1e-3: merged = effects.speedup(merged, ...)
TempoStage ==
    /\ pc = "tempo"
    /\ IF TempoNeeded(speed)
       THEN ops' = Append(ops, "tempo")
       ELSE ops' = ops
    /\ pc' = "export"
    /\ UNCHANGED << inputVars, chunkVars, synthVars, tmpdir, m, reads,
                    merged, exported, err >>

\* effects.speedup raises (the codec rejects the signal): the exception
\* leaves the with block and reaches main's except Exception
TempoFail ==
    /\ pc = "tempo"
    /\ TempoNeeded(speed)
    /\ pc' = "exit"
    /\ err' = "TempoError"
    /\ tmpdir' = "released"
    /\ UNCHANGED << inputVars, chunkVars, synthVars, mergeVars >>

\* out_path.parent.mkdir(...); merged.export(out_path, ...) succeed, the
\* with block ends and main prints the completion message
ExportOk ==
    /\ pc = "export"
    /\ exported' = TRUE
    /\ ops' = Append(ops, "export")
    /\ tmpdir' = "released"
    /\ pc' = "exit"
    /\ UNCHANGED << inputVars, chunkVars, synthVars, m, reads, merged, err >>

\* mkdir or export raises
ExportFail ==
    /\ pc = "export"
    /\ pc' = "exit"
    /\ err' = "ExportError"
    /\ tmpdir' = "released"
    /\ UNCHANGED << inputVars, chunkVars, synthVars, mergeVars >>

\* ------------------------------------------------------------------------
\* KeyboardInterrupt: not an Exception, so neither loop's handler catches
\* it; it unwinds through the with block to main (lines 465-467)
\* ------------------------------------------------------------------------
InterruptLeak ==
    /\ pc \notin {"exit"}
    /\ pc' = "exit"
    /\ err' = "KeyboardInterrupt"
    /\ UNCHANGED << inputVars, chunkVars, synthVars, tmpdir, mergeVars >>

Interrupt ==
    /\ pc \notin {"exit"}
    /\ pc' = "exit"
    /\ err' = "KeyboardInterrupt"
    /\ tmpdir' = IF tmpdir = "held" THEN "released" ELSE tmpdir
    /\ UNCHANGED << inputVars, chunkVars, synthVars, mergeVars >>

Next ==
    \/ MainCheck
    \/ ChunkEnter
    \/ ChunkStep
    \/ ChunkReturn
    \/ SynthesizeEnter
    \/ SynthOk
    \/ SynthFail
    \/ SynthLoopExit
    \/ MergeReadOk
    \/ MergeReadFail
    \/ GainStage
    \/ TempoStage
    \/ TempoFail
    \/ ExportOk
    \/ ExportFail
    \/ Interrupt

Spec == Init /\ [][Next]_vars

\* ------------------------------------------------------------------------
\* Properties of chunk_text
\* ------------------------------------------------------------------------
RECURSIVE ConcatRaw(_)
ConcatRaw(sp) ==
    IF sp = << >> THEN << >>
    ELSE ConcatRaw(SubSeq(sp, 1, Len(sp) - 1)) \o sp[Len(sp)].raw

IsBlank(s) == \A j \in 1..Len(s) : s[j] \in Whitespace

\* u is t without its leading and trailing whitespace
IsTrimOf(u, t) ==
    /\ u # << >>
    /\ u[1] \notin Whitespace
    /\ u[Len(u)] \notin Whitespace
    /\ \E a \in 0..Len(t) :
          /\ a + Len(u) <= Len(t)
          /\ u = SubSeq(t, a + 1, a + Len(u))
          /\ \A j \in 1..a : t[j] \in Whitespace
          /\ \A j \in (a + Len(u) + 1)..Len(t) : t[j] \in Whitespace

\* C1: the raw spans of successive iterations are contiguous, start at
\* offset 0 and end at len(text): each span starts where the previous one
\* ended, the spans consumed so far concatenate to the text up to the scan
\* offset, and on return to the whole text.
C1_SpansPartitionText ==
    /\ i <= Len(text)
    /\ \A j \in 1..Len(spans) :
          spans[j].start = (IF j = 1 THEN 0 ELSE spans[j - 1].end)
    /\ spans # << >> => spans[Len(spans)].end = i
    /\ ConcatRaw(spans) = SubSeq(text, 1, i)
    /\ pc = "chunked" => (i = Len(text) /\ ConcatRaw(spans) = text)

\* chunk_text has returned after three or more iterations, one of them cut
\* at a boundary marker
C1_Witness ==
    /\ pc = "chunked"
    /\ Len(spans) >= 3
    /\ \E j \in 1..Len(spans) : spans[j].end < spans[j].tentative

\* C2: every raw span has length at most chunk_size, also when it is cut at
\* a boundary marker; every returned unit is non-empty and has no leading or
\* trailing whitespace; spans that are blank take no position in the list.
C2_SpanBoundedUnitsNonEmpty ==
    /\ \A j \in 1..Len(spans) :
          /\ spans[j].end - spans[j].start <= chunk_size
          /\ Len(spans[j].raw) <= chunk_size
    /\ \A j \in 1..Len(chunks) :
          /\ chunks[j] # << >>
          /\ chunks[j][1] \notin Whitespace
          /\ chunks[j][Len(chunks[j])] \notin Whitespace
    /\ Len(chunks) =
          Cardinality({j \in 1..Len(spans) : ~IsBlank(spans[j].raw)})

\* chunk_text has returned two or more units after cutting one span at a
\* boundary marker and dropping a blank span
C2_Witness ==
    /\ pc = "chunked"
    /\ Len(chunks) >= 2
    /\ \E j \in 1..Len(spans) : spans[j].end < spans[j].tentative
    /\ \E j \in 1..Len(spans) : IsBlank(spans[j].raw)

\* C3 as stated: every text shorter than chunk_size yields exactly one unit,
\* the trimmed text.
C3_ShortTextOneUnit ==
    (pc = "chunked" /\ Len(text) < chunk_size)
        => (Len(chunks) = 1 /\ IsTrimOf(chunks[1], text))

\* C3 amended: a text shorter than chunk_size that has a non-whitespace
\* character yields exactly one unit, the trimmed text; a text shorter than
\* chunk_size that is empty or all whitespace yields no unit.
C3_ShortTextOneUnitOrNone ==
    (pc = "chunked" /\ Len(text) < chunk_size)
        => IF IsBlank(text)
           THEN chunks = << >>
           ELSE Len(chunks) = 1 /\ IsTrimOf(chunks[1], text)

\* chunk_text has returned one unit for a short text with whitespace on both
\* sides of its content
C3_Witness ==
    /\ pc = "chunked"
    /\ Len(text) < chunk_size
    /\ Len(chunks) = 1
    /\ text[1] \in Whitespace
    /\ text[Len(text)] \in Whitespace

\* C4 as stated: when the tentative end is before end-of-text and the latest
\* marker is at window offset b, the span is cut at offset + b + 1 if
\* b >= 0.3 * chunk_size and at offset + chunk_size otherwise.
C4_CutAtOrPastThirtyPercent ==
    \A j \in 1..Len(spans) :
        spans[j].tentative # Len(text) =>
            /\ spans[j].tentative = spans[j].start + chunk_size
            /\ spans[j].end =
                  IF 10 * spans[j].b >= 3 * chunk_size
                  THEN spans[j].start + spans[j].b + 1
                  ELSE spans[j].start + chunk_size

\* ------------------------------------------------------------------------
\* Properties of synthesize_to_mp3 and _merge_audio_files
\* ------------------------------------------------------------------------
\* the indices of the attempts that succeeded, in the order of the attempts
OkIndices(at) ==
    LET okAt == SelectSeq(at, LAMBDA a : a.ok)
    IN  [j \in 1..Len(okAt) |-> okAt[j].index]

AllFailed(at) == \A j \in 1..Len(at) : ~at[j].ok

MergePcs == {"merge_loop", "tempo", "export"}

NumSegments(mg) == Cardinality({j \in 1..Len(mg) : mg[j].kind = "segment"})

NumGaps(mg) == Cardinality({j \in 1..Len(mg) : mg[j].kind = "silence"})

GapTotal(mg) == NumGaps(mg) * DEFAULT_SILENCE_MS

\* C5: the segments handed to the merge stage are exactly the units whose
\* synthesis succeeded, in the units' order, each tagged with the 1-based
\* index the unit has among all units.
C5_SegmentsAreSuccessesInOrder ==
    /\ part_paths = OkIndices(attempts)
    /\ \A j \in 1..Len(attempts) : attempts[j].index = j
    /\ \A j \in 1..(Len(part_paths) - 1) : part_paths[j] < part_paths[j + 1]

\* three units, the second fails: the merge stage gets indices 1 and 3
C5_Witness ==
    /\ pc = "merge_loop"
    /\ Len(chunks) = 3
    /\ ~attempts[2].ok
    /\ part_paths = << 1, 3 >>

\* C6: a failing unit does not abort the job: the units are submitted once
\* each in increasing index order, a run that leaves the synthesis loop other
\* than by an interrupt has submitted every unit, and a failing unit
\* contributes no segment.
C6_EveryUnitAttemptedOnce ==
    /\ Len(attempts) <= Len(chunks)
    /\ \A j \in 1..Len(attempts) : attempts[j].index = j
    /\ pc = "synth_loop" => Len(attempts) = k - 1
    /\ (tmpdir # "none" /\ pc # "synth_loop" /\ err # "KeyboardInterrupt")
          => Len(attempts) = Len(chunks)
    /\ \A j \in 1..Len(attempts) :
          ~attempts[j].ok =>
              \A q \in 1..Len(part_paths) : part_paths[q] # attempts[j].index

\* the first of three units failed and the loop went on to submit the rest
C6_Witness ==
    /\ pc = "merge_loop"
    /\ Len(attempts) = 3
    /\ ~attempts[1].ok
    /\ attempts[3].ok

\* C7: with a non-empty unit list whose units all fail, the run ends in the
\* all-units-failed error after every unit has been attempted, the merge
\* stage is never entered and nothing is exported.
C7_AllFailedIsFatal ==
    /\ err = "AllChunksFailed" =>
          /\ chunks # << >>
          /\ Len(attempts) = Len(chunks)
          /\ AllFailed(attempts)
          /\ reads = << >> /\ merged = << >> /\ ops = << >>
          /\ ~exported
    /\ (pc = "exit" /\ chunks # << >> /\ Len(attempts) = Len(chunks)
            /\ AllFailed(attempts) /\ err # "KeyboardInterrupt")
          => err = "AllChunksFailed"
    /\ pc \in MergePcs => ~AllFailed(attempts)
    /\ AllFailed(attempts) => (~exported /\ reads = << >>)

\* two or more units were attempted, all failed, and the run ended in the
\* all-units-failed error
C7_Witness ==
    /\ err = "AllChunksFailed"
    /\ Len(attempts) >= 2
    /\ pc = "exit"

\* synthesize_to_mp3 has been applied to a non-empty text and its unit list
\* is empty
SynthesizedEmpty ==
    /\ pc = "exit"
    /\ text # << >>
    /\ chunks = << >>
    /\ err # "KeyboardInterrupt"

\* C8 as stated: the synthesis stage applied to an empty unit sequence
\* returns an empty segment sequence and signals no error.
C8_EmptyUnitsNoError ==
    SynthesizedEmpty => (err = "none" /\ part_paths = << >>)

\* C8 amended: synthesize_to_mp3 applied to an empty unit sequence raises
\* ValueError before acquiring temporary storage, submits no unit and
\* returns no segment sequence.
C8_EmptyUnitsValueError ==
    SynthesizedEmpty =>
        /\ err = "ValueError"
        /\ tmpdir = "none"
        /\ attempts = << >>
        /\ part_paths = << >>
        /\ reads = << >>

\* a whitespace-only text was chunked into no unit and the run ended
C8_Witness ==
    /\ SynthesizedEmpty
    /\ Len(spans) >= 2
    /\ err = "ValueError"

\* the merge loop has read every part file
MergeLoopDone == pc \in {"tempo", "export"}

\* C9 as stated: k >= 1 read segments are joined with exactly k - 1 gaps of
\* silence_ms, none before the first segment and none after the last.
C9_GapsOnlyBetweenSegments ==
    (MergeLoopDone /\ NumSegments(merged) >= 1) =>
        /\ NumGaps(merged) = NumSegments(merged) - 1
        /\ GapTotal(merged) = (NumSegments(merged) - 1) * DEFAULT_SILENCE_MS
        /\ merged[1].kind = "segment"
        /\ merged[Len(merged)].kind = "segment"

\* C10 as stated: a merge that ends up with no usable segment (every read
\* failed) fails and exports nothing.  The error is EmptyAssemblyError in the
\* claim; the formula asks only for some error, so that a violation is a run
\* that ends without one or with an exported artifact.
C10_EmptyMergeFails ==
    (pc = "exit" /\ reads # << >> /\ Len(reads) = Len(part_paths)
        /\ NumSegments(merged) = 0 /\ err # "KeyboardInterrupt")
      => (err # "none" /\ ~exported)

\* ------------------------------------------------------------------------
\* Properties of the merge loop and the stages after it
\* ------------------------------------------------------------------------
\* the indices of the segment pieces of a signal, in the order of the signal
SegmentIndices(mg) ==
    LET segs == SelectSeq(mg, LAMBDA p : p.kind = "segment")
    IN  [j \in 1..Len(segs) |-> segs[j].index]

\* C11: a part file that cannot be read is left out of the concatenation
\* and does not abort the merge: the part files are read once each in input
\* order, a run that leaves the merge loop other than by an interrupt has
\* read every one, and the merged signal holds exactly the readable
\* segments in their input order.
C11_UnreadableSegmentSkipped ==
    /\ Len(reads) <= Len(part_paths)
    /\ \A j \in 1..Len(reads) : reads[j].index = part_paths[j]
    /\ pc = "merge_loop" => Len(reads) = m - 1
    /\ (reads # << >> /\ pc # "merge_loop" /\ err # "KeyboardInterrupt")
          => Len(reads) = Len(part_paths)
    /\ SegmentIndices(merged) = OkIndices(reads)

\* the first of three part files could not be read, the other two were
C11_Witness ==
    /\ pc = "tempo"
    /\ Len(reads) = 3
    /\ ~reads[1].ok
    /\ SegmentIndices(merged) = << 2, 3 >>

\* the signal that joining the readable part files alone gives: each
\* readable segment followed by the silence line 230 adds, no gain applied
RECURSIVE PlainConcat(_)
PlainConcat(rd) ==
    IF rd = << >> THEN << >>
    ELSE LET front == PlainConcat(SubSeq(rd, 1, Len(rd) - 1))
             last == rd[Len(rd)]
         IN  IF last.ok
             THEN front \o << [kind |-> "segment", index |-> last.index,
                               ms |-> 0, db |-> 0],
                              [kind |-> "silence", index |-> 0,
                               ms |-> DEFAULT_SILENCE_MS, db |-> 0] >>
             ELSE front

StageRank(op) ==
    CASE op = "gain" -> 1
      [] op = "tempo" -> 2
      [] op = "export" -> 3

HasOp(op) == \E j \in 1..Len(ops) : ops[j] = op

SpeedOffTolerance == speed - UnitSpeed > 1 \/ UnitSpeed - speed > 1

\* C12: the stages run in the order concatenate, gain, tempo, export, each
\* at most once and none before every part file has been read; gain runs
\* exactly when gain # 0 and shifts every piece of the concatenated signal by
\* gain once; tempo runs exactly when |speed - 1.0| > 1e-3; with gain = 0
\* and speed = 1.0 the exported signal is the plain concatenation.
C12_StagesInOrder ==
    /\ \A a, b \in 1..Len(ops) : a < b => StageRank(ops[a]) < StageRank(ops[b])
    /\ ops # << >> => (reads # << >> /\ Len(reads) = Len(part_paths))
    /\ HasOp("gain") => gain # 0
    /\ HasOp("tempo") => SpeedOffTolerance
    /\ (pc \in {"tempo", "export"} \/ exported) =>
          /\ HasOp("gain") <=> gain # 0
          /\ Len(merged) = Len(PlainConcat(reads))
          /\ \A j \in 1..Len(merged) :
                merged[j] = [PlainConcat(reads)[j] EXCEPT !.db = gain]
    /\ (pc = "export" \/ exported) => (HasOp("tempo") <=> SpeedOffTolerance)
    /\ exported => ops[Len(ops)] = "export"
    /\ (exported /\ gain = 0 /\ speed = UnitSpeed) =>
          (ops = << "export" >> /\ merged = PlainConcat(reads))

\* two segments were joined, then gain, tempo and export ran
C12_Witness ==
    /\ exported
    /\ ops = << "gain", "tempo", "export" >>
    /\ Len(SegmentIndices(merged)) = 2

\* ------------------------------------------------------------------------
\* Properties of the whole run
\* ------------------------------------------------------------------------
\* C13: when the input text yields no unit (it is empty or all whitespace)
\* no unit is ever handed to the synthesis provider, no temporary storage is
\* acquired, nothing is read, staged or exported, and a run that is not
\* interrupted ends in an empty-input error: main's empty-text exit for the
\* empty text, the ValueError of synthesize_to_mp3 otherwise.
C13_NoUnitNoSynthesis ==
    IsBlank(text) =>
        /\ chunks = << >>
        /\ attempts = << >>
        /\ part_paths = << >>
        /\ tmpdir = "none"
        /\ ops = << >>
        /\ ~exported
        /\ pc \notin ({"synth_loop"} \cup MergePcs)
        /\ (pc = "exit" /\ err # "KeyboardInterrupt") =>
              err = (IF text = << >> THEN "EmptyCleanedText" ELSE "ValueError")

\* the empty text was turned away by main
C13_Witness ==
    /\ text = << >>
    /\ pc = "exit"
    /\ err = "EmptyCleanedText"

\* C14: the temporary directory is released on every exit path (completion,
\* all units failed, a failure in merge or export, an interrupt) and is held
\* only inside the with block; after an interrupt the run has ended and no
\* unit can be submitted any more.
C14_TmpdirReleased ==
    /\ pc = "exit" => tmpdir # "held"
    /\ tmpdir = "held" <=> pc \in ({"synth_loop"} \cup MergePcs)
    /\ (pc = "exit" /\ tmpdir = "none") => attempts = << >>
    /\ (pc = "exit" /\ err \in {"none", "AllChunksFailed", "TempoError",
                                "ExportError"}) => tmpdir = "released"
    /\ err = "KeyboardInterrupt" =>
          (pc = "exit" /\ ~ENABLED (SynthOk \/ SynthFail))

\* an interrupt arrived after the first unit and before the last one
C14_Witness ==
    /\ err = "KeyboardInterrupt"
    /\ tmpdir = "released"
    /\ Len(attempts) >= 1
    /\ Len(attempts) < Len(chunks)

\* ------------------------------------------------------------------------
\* Properties of the boundary search and of the scan loop
\* ------------------------------------------------------------------------
\* the window text[start:tentative] of a recorded iteration
Window(sp) == SubSeq(text, sp.start + 1, sp.tentative)

\* a marker of one of the six kinds starts at 0-based position p of w
MarkerAt(w, p) ==
    \/ w[p + 1] \in {Kuten, Newline, Touten, Space}
    \/ p + 2 <= Len(w) /\ w[p + 1] = Period /\ w[p + 2] = Newline
    \/ p + 2 <= Len(w) /\ w[p + 1] = Comma /\ w[p + 2] = Space

\* the units of the documented example
ExampleUnits ==
    << SubSeq(ExampleText, 1, 15), SubSeq(ExampleText, 17, 32),
       SubSeq(ExampleText, 34, 39) >>

ScanTexts == SeqsUpTo({Letter, Space}, MaxScanLen)

InitScan ==
    /\ text \in ScanTexts
    /\ chunk_size \in 1..MaxChunk
    /\ gain = DEFAULT_GAIN
    /\ speed = DEFAULT_SPEED
    /\ pc = "chunk"
    /\ InitRest

SpecChunkFair == InitScan /\ [][ChunkNext]_vars /\ WF_vars(ChunkNext)

\* C16: the scan loop terminates: every iteration strictly increases the
\* scan offset, a boundary is accepted only at a window offset greater than
\* 0.3 * chunk_size, and the loop is eventually left with the offset equal
\* to len(text).
C16_ScanLoopTerminates ==
    /\ [][ChunkStep => (i' > i /\ i' <= Len(text))]_vars
    /\ [](\A j \in 1..Len(spans) :
              /\ spans[j].end > spans[j].start
              /\ spans[j].end # spans[j].tentative
                    => 10 * spans[j].b > 3 * chunk_size)
    /\ <>(pc = "chunked" /\ i = Len(text))

\* the loop has ended after two or more iterations, one of them cut at a
\* boundary whose window offset is the least one a chunk size of 3 accepts
C16_Witness ==
    /\ pc = "chunked"
    /\ chunk_size = 3
    /\ i = Len(text)
    /\ Len(spans) >= 2
    /\ \E j \in 1..Len(spans) :
          spans[j].end < spans[j].tentative /\ spans[j].b = 1

====
